---- MODULE Spec2Model ----
(***************************************************************************)
(* TDSBridge-go: a TCP bridge that relays a client's TDS byte stream to a  *)
(* SQL Server endpoint (ingress), parsing it into packets and messages,    *)
(* and relays the server's bytes back opaquely (egress).                   *)
(*                                                                         *)
(* The module models one bridged connection (pkg/connection.go,            *)
(* BridgedConnection) at the level of socket reads and writes, together    *)
(* with the header, packet and message types it uses, and the acceptor     *)
(* (BridgeAcceptor) with its accept tasks.                                 *)
(***************************************************************************)
EXTENDS Integers, Sequences, FiniteSets, TLC

(***************************************************************************)
(* Bounds of the model.                                                    *)
(***************************************************************************)
\* packets the client sends on the connection
MaxPackets == 2
\* reads of the client socket that return fewer bytes than are available
MaxShortReads == 1
\* bytes the upstream server sends on the connection
MaxUpBytes == 2
\* calls of BridgeAcceptor.Start
MaxStarts == 2
\* calls of BridgeAcceptor.Stop
MaxStops == 1
\* clients that connect to the listening port
MaxClients == 1
\* packets the client of the bridged connection sends while the acceptor runs
MaxBridgePackets == 1
\* Accept calls that fail although the listener is open
MaxAcceptErrors == 1
\* bytes of a payload handed to the message API, and chunks it is split into
MaxPayloadLen == 6
MaxChunks == 2

(***************************************************************************)
(* Program constants.                                                      *)
(***************************************************************************)
HEADER_SIZE == 8
END_OF_MESSAGE == 1
IGNORE_EVENT == 2
SQLBatch == 1
RPC == 3
AttentionSignal == 6
\* the header type of the large-read branch of ingress
LargeReadType == 23
\* 0x1000, the minimum size of the ingress payload buffer
ScratchSize == 4096
\* the size of the egress buffer
EgressBufferSize == 4096

ClientBridge == "ClientBridge"
BridgeSQL == "BridgeSQL"
ConnectionType == {ClientBridge, BridgeSQL}
\* the tasks that publish events: the two forwarding tasks and the acceptor's tasks
Tasks == ConnectionType \cup {"Acceptor"}

(***************************************************************************)
(* Byte slices.  A Go []byte of length len is held as its length and the   *)
(* explicit prefix pre up to its last non-zero byte; every byte after pre  *)
(* is zero (make() zero-fills).  The form is canonical, so two slices are  *)
(* equal iff they have the same length and the same bytes.                 *)
(***************************************************************************)
Min(a, b) == IF a < b THEN a ELSE b

max(a, b) == IF a > b THEN a ELSE b

RECURSIVE StripZeros(_)
StripZeros(s) ==
    IF s = <<>> \/ s[Len(s)] # 0 THEN s ELSE StripZeros(SubSeq(s, 1, Len(s) - 1))

make(n) == [len |-> n, pre |-> <<>>]

\* b[:k], for 0 <= k <= len(b)
SliceTo(b, k) == [len |-> k, pre |-> StripZeros(SubSeq(b.pre, 1, Min(k, Len(b.pre))))]

\* the slice after a Read stored the bytes data at its start
Stored(b, data) ==
    [len |-> b.len, pre |-> StripZeros(data \o SubSeq(b.pre, Len(data) + 1, Len(b.pre)))]

\* the i-th byte of a slice, counted from 1
ByteAt(b, i) == IF i <= Len(b.pre) THEN b.pre[i] ELSE 0

\* the slice holding exactly the bytes of the sequence s
FromSeq(s) == [len |-> Len(s), pre |-> StripZeros(s)]

(***************************************************************************)
(* TDSHeader (header.go).                                                  *)
(***************************************************************************)
\* NewTDSHeader: a fresh 8-byte buffer, filled from the argument when it has 8 bytes
NewTDSHeader(buffer) ==
    IF Len(buffer) >= HEADER_SIZE
    THEN SubSeq(buffer, 1, HEADER_SIZE)
    ELSE [i \in 1..HEADER_SIZE |-> 0]

Type(h) == h[1]

StatusBitMask(h) == h[2]

LengthIncludingHeader(h) == h[3] * 256 + h[4]

PayloadSize(h) == LengthIncludingHeader(h) - HEADER_SIZE

\* status & END_OF_MESSAGE == END_OF_MESSAGE
HasEndOfMessage(status) == status % 2 = 1

\* status & IGNORE_EVENT == IGNORE_EVENT
HasIgnoreEvent(status) == (status \div 2) % 2 = 1


(***************************************************************************)
(* TDSPacket (packet.go) and TDSMessage (message.go).  Packets and         *)
(* messages are heap objects: packets[i] and messages[i] are the objects,  *)
(* a reference is an index, 0 is nil.  A packet's Shares names the buffers *)
(* of its constructor's caller whose memory its slices still use: a slice  *)
(* that was made and copied into uses none, a slice that was kept uses its *)
(* caller's, and a later write into that buffer shows in the packet.       *)
(***************************************************************************)
\* make([]byte, n) panics for a negative n
MakePanics(n) == n < 0

\* a packet that keeps the whole buffer it was given as its payload
NewTDSPacket_WholeBuffer(hdr, payload, payloadSize) ==
    [Header  |-> NewTDSHeader(hdr),
     Payload |-> payload,
     Shares  |-> {}]

\* a packet that keeps the slices it was given (header, payload[:payloadSize])
\* instead of copying them
NewTDSPacket_Shared(hdr, payload, payloadSize) ==
    [Header  |-> NewTDSHeader(hdr),
     Payload |-> IF payload.len >= payloadSize
                 THEN SliceTo(payload, payloadSize)
                 ELSE make(payloadSize),
     Shares  |-> {"header", "payload"}]

\* NewTDSPacket(header, payload, payloadSize), for payloadSize >= 0: the header
\* is copied into the buffer NewTDSHeader makes, the payload into a made slice
NewTDSPacket(hdr, payload, payloadSize) ==
    [Header  |-> NewTDSHeader(hdr),
     Payload |-> IF payload.len >= payloadSize
                 THEN SliceTo(payload, payloadSize)
                 ELSE make(payloadSize),
     Shares  |-> {}]

\* the heap after the caller's header buffer was overwritten with hb
HeaderOverwritten(heap, hb) ==
    [i \in 1..Len(heap) |->
        IF "header" \in heap[i].Shares
        THEN [heap[i] EXCEPT !.Header = NewTDSHeader(hb)]
        ELSE heap[i]]

\* the heap after the caller's payload buffer was overwritten and now is buf
PayloadOverwritten(heap, buf) ==
    [i \in 1..Len(heap) |->
        IF "payload" \in heap[i].Shares
        THEN [heap[i] EXCEPT !.Payload = SliceTo(buf, Min(@.len, buf.len))]
        ELSE heap[i]]

\* the heap after the caller replaced its payload buffer by a new one: the
\* packets that used the old one keep it, and no later write reaches it
PayloadReplaced(heap) ==
    [i \in 1..Len(heap) |-> [heap[i] EXCEPT !.Shares = @ \ {"payload"}]]

\* the subtype CreateTDSMessageFromFirstPacket selects
MessageKind(type) ==
    CASE type = SQLBatch        -> "SQLBatchMessage"
      [] type = AttentionSignal -> "AttentionMessage"
      [] type = RPC             -> "RPCRequestMessage"
      [] OTHER                  -> "DefaultTDSMessage"

\* CreateTDSMessageFromFirstPacket(firstPacket), on the packet's header and reference
CreateTDSMessageFromFirstPacket(hdr, ref) ==
    [kind |-> MessageKind(Type(hdr)), Packets |-> <<ref>>]

\* AddPacket inserting the packet at the front of the list
AddPacket_Prepend(m, ref) == [m EXCEPT !.Packets = <<ref>> \o @]

\* BaseTDSMessage.AddPacket
AddPacket(m, ref) == [m EXCEPT !.Packets = Append(@, ref)]

Last(s) == s[Len(s)]

\* BaseTDSMessage.IsComplete, given the heap of packets
IsComplete(m, heap) ==
    IF Len(m.Packets) = 0
    THEN FALSE
    ELSE HasEndOfMessage(StatusBitMask(heap[Last(m.Packets)].Header))

(***************************************************************************)
(* What the peers send.  The client sends a stream of whole packets; the   *)
(* k-th packet has packet-id k and payload bytes 16k+1, 16k+2, ..., so     *)
(* that every packet's bytes differ.  A packet kind is its header type,    *)
(* status byte and declared length-including-header.  How the stream       *)
(* arrives (in which pieces) is the choice of the Reads.                   *)
(***************************************************************************)
PacketKinds ==
    { <<SQLBatch, 0, 10>>,                  \* a packet of a batch that is not the last
      <<SQLBatch, END_OF_MESSAGE, 8>>,      \* a header-only last packet of a batch
      <<LargeReadType, END_OF_MESSAGE, 9>>, \* the large-read type, one payload byte
      <<SQLBatch, END_OF_MESSAGE, 4>> }     \* declared length below the header size

PacketBytes(kind, k) ==
    <<kind[1], kind[2], kind[3] \div 256, kind[3] % 256, 0, 50 + k, k, 0>>
    \o [j \in 1..max(0, kind[3] - HEADER_SIZE) |-> ((16 * k) + j) % 256]

\* the sequences of at most MaxPackets packet kinds, and the byte stream of one
KindSeqs == UNION { [1..m -> PacketKinds] : m \in 0..MaxPackets }

RECURSIVE StreamOf(_, _)
StreamOf(ks, k) ==
    IF k > Len(ks) THEN <<>> ELSE PacketBytes(ks[k], k) \o StreamOf(ks, k + 1)

\* the streams of at most MaxBridgePackets packets whose declared length covers
\* the header
BridgeStreams ==
    { ks \in KindSeqs : /\ Len(ks) <= MaxBridgePackets
                        /\ \A i \in 1..Len(ks) : ks[i][3] >= HEADER_SIZE }

\* the first m bytes the upstream server sends
UpStream(m) == [j \in 1..m |-> 100 + j]

(***************************************************************************)
(* State.                                                                  *)
(***************************************************************************)
Sockets == {"client", "sql"}

VARIABLES
    \* -- the two sockets of the SocketCouple and their peers
    inbox,        \* [socket -> bytes the peer sent that the bridge has not read]
    sent,         \* [socket -> all bytes the peer has sent]
    peerClosed,   \* [socket -> the peer has closed its end]
    written,      \* [socket -> the slices the bridge has written, one per Write]
    closeCalls,   \* [socket -> number of Close calls the bridge made]
    \* -- the two forwarding tasks
    pc,           \* [direction -> position of its task]
    mu,           \* BridgedConnection.mu: "free" or the direction holding it
    crashed,      \* the process has died of an unrecovered panic
    \* -- locals of clientBridgeToSQLServer
    bHeader, bBuffer, header, received, tdsMessage, tdsPacket, panicking,
    \* -- locals of sqlServerToClientBridge
    eBuffer, n,
    \* -- heap
    packets, messages,
    \* -- the observers: [task -> the events the task has published, in order]
    events,
    \* -- short reads of the client socket so far
    nShort,
    \* -- BridgeAcceptor
    enabled, listener, listeners, baMu, accPc, accOn, nStarts, nStops,
    \* -- the handlers of the accepted clients: the number of clients accepted,
    \*    [client -> position of its handleNewConnection], [client -> Close calls
    \*    handleNewConnection made on its socket], the client that was bridged
    nClients, hPc, hClosed, bridgedClient,
    \* -- history: the client whose connection existed when Stop last ran
    atStop,
    \* -- Accept calls that failed on an open listener so far
    nAccErr,
    \* -- history: per accept task, whether the acceptor was enabled when its
    \*    last Accept call returned an error
    errWhile,
    \* -- a caller of the message API outside any connection: the payload it
    \*    splits, the chunk sizes, the chunks appended so far, its message, the
    \*    results of its last AssemblePayload and GetBatchText calls, and the
    \*    width of int in the build
    payloadIn, chunkSizes, fed, libMsg, assembled, batchText, intBits

sockVars == <<inbox, sent, peerClosed, written, closeCalls>>
ingressVars == <<bHeader, bBuffer, header, received, tdsMessage, tdsPacket, panicking>>
egressVars == <<eBuffer, n>>
heapVars == <<packets, messages>>
envVars == <<nShort>>
connVars == <<sockVars, pc, mu, ingressVars, egressVars, heapVars, envVars>>
hcVars == <<nClients, hPc, hClosed, bridgedClient, atStop>>
accVars == <<enabled, listener, listeners, baMu, accPc, accOn, nStarts, nStops, hcVars,
             nAccErr, errWhile>>
libVars == <<payloadIn, chunkSizes, fed, libMsg, assembled, batchText, intBits>>
vars == <<connVars, accVars, events, crashed, libVars>>

\* the sockets of a client and of the upstream server with the byte streams the
\* two peers are going to send and the short reads already spent, and the fields
\* and locals of a bridged connection as its forwarding tasks find them
NewBridgedConnection(clientStream, upStream, shortReads) ==
    /\ inbox = [s \in Sockets |-> IF s = "client" THEN clientStream ELSE upStream]
    /\ sent = inbox
    /\ peerClosed = [s \in Sockets |-> FALSE]
    /\ written = [s \in Sockets |-> <<>>]
    /\ closeCalls = [s \in Sockets |-> 0]
    /\ mu = "free"
    /\ bHeader = [i \in 1..HEADER_SIZE |-> 0]
    /\ bBuffer = make(0)
    /\ header = [i \in 1..HEADER_SIZE |-> 0]
    /\ received = 0
    /\ tdsMessage = 0
    /\ tdsPacket = 0
    /\ panicking = FALSE
    /\ eBuffer = make(EgressBufferSize)
    /\ n = 0
    /\ packets = <<>>
    /\ messages = <<>>
    /\ nShort = shortReads

\* nothing calls the message API from outside the connection; a 64-bit build
LibIdle ==
    /\ payloadIn = <<>>
    /\ chunkSizes = <<>>
    /\ fed = 0
    /\ libMsg = 0
    /\ assembled = <<>>
    /\ batchText = <<>>
    /\ intBits = 64

\* a bridged connection whose Start has spawned both tasks
ConnInit(clientStream, upStream, shortReads) ==
    /\ NewBridgedConnection(clientStream, upStream, shortReads)
    /\ pc = [ct \in ConnectionType |-> IF ct = ClientBridge THEN "ReadHeader" ELSE "Read"]

\* NewBridgeAcceptor: not enabled, no listener
AccInit ==
    /\ enabled = FALSE
    /\ listener = 0
    /\ listeners = <<>>
    /\ baMu = "free"
    /\ accPc = [t \in 1..MaxStarts |-> "none"]
    /\ accOn = [t \in 1..MaxStarts |-> 0]
    /\ nStarts = 0
    /\ nStops = 0
    /\ nClients = 0
    /\ hPc = [c \in 1..MaxClients |-> "none"]
    /\ hClosed = [c \in 1..MaxClients |-> 0]
    /\ bridgedClient = 0
    /\ atStop = 0
    /\ errWhile = [t \in 1..MaxStarts |-> "none"]

Event(kind, arg) == [ev |-> kind, arg |-> arg]

\* the acceptor after Start, with its accept task back at the head of its loop
\* after the first client was accepted and bridged, and what was published so far
AccBridged ==
    /\ enabled = TRUE
    /\ listener = 1
    /\ listeners = <<"open">>
    /\ baMu = "free"
    /\ accPc = [t \in 1..MaxStarts |-> IF t = 1 THEN "Check" ELSE "none"]
    /\ accOn = [t \in 1..MaxStarts |-> IF t = 1 THEN 1 ELSE 0]
    /\ nStarts = 1
    /\ nStops = 0
    /\ nClients = 1
    /\ hPc = [c \in 1..MaxClients |-> IF c = 1 THEN "Bridged" ELSE "none"]
    /\ hClosed = [c \in 1..MaxClients |-> 0]
    /\ bridgedClient = 1
    /\ atStop = 0
    /\ nAccErr = 0
    /\ errWhile = [t \in 1..MaxStarts |-> "none"]
    /\ events = [t \in Tasks |-> IF t = "Acceptor"
                                 THEN <<Event("connection-accepted", 1)>>
                                 ELSE <<>>]

\* one connection whose upstream server sends nothing: the ingress side in full
Init ==
    /\ \E ks \in KindSeqs : ConnInit(StreamOf(ks, 1), <<>>, 0)
    /\ AccBridged
    /\ crashed = FALSE
    /\ LibIdle

(***************************************************************************)
(* The peers.                                                              *)
(***************************************************************************)
\* a peer closes its end of its connection to the bridge
PeerClose(s) ==
    /\ ~crashed /\ ~peerClosed[s]
    /\ peerClosed' = [peerClosed EXCEPT ![s] = TRUE]
    /\ UNCHANGED <<inbox, sent, written, closeCalls, pc, mu, ingressVars,
                   egressVars, heapVars, envVars, accVars, events, crashed, libVars>>

(***************************************************************************)
(* net.Conn.  A Read of a socket the bridge has closed fails; otherwise it *)
(* returns between 1 and min(len(buffer), available) bytes, blocks while   *)
(* nothing is available, and returns (0, EOF) once the peer has closed and *)
(* everything was read.  A Write fails once the peer or the bridge has     *)
(* closed the socket, and otherwise writes the whole slice.                *)
(***************************************************************************)
ReadSizes(s, want) ==
    IF closeCalls[s] > 0 THEN {} ELSE 1..Min(want, Len(inbox[s]))

ReadFails(s) ==
    \/ closeCalls[s] > 0
    \/ inbox[s] = <<>> /\ peerClosed[s]

WriteFails(s) == closeCalls[s] > 0 \/ peerClosed[s]

\* a read of the client socket that returns less than is available uses the budget
ShortOK(k, want) == k = Min(want, Len(inbox["client"])) \/ nShort < MaxShortReads

IsShort(k, want) == k < Min(want, Len(inbox["client"]))

(***************************************************************************)
(* BridgedConnection.clientBridgeToSQLServer (ingress), one action per     *)
(* blocking call or published event.  pc[ClientBridge] is the position.    *)
(***************************************************************************)
\* an error branch that publishes connection-disconnected itself, before the
\* deferred call does
Throw_AndDisconnect(ct) ==
    /\ events' = [events EXCEPT ![ct] =
                      @ \o <<Event("bridge-exception", ct),
                             Event("connection-disconnected", ct)>>]
    /\ pc' = [pc EXCEPT ![ct] = "Disconnected"]

\* onBridgeException(ct, err); return -- the deferred onConnectionDisconnected is next
Throw(ct) ==
    /\ events' = [events EXCEPT ![ct] = Append(@, Event("bridge-exception", ct))]
    /\ pc' = [pc EXCEPT ![ct] = "Disconnected"]

\* lines 277-290: read the header, parse it, make sure the payload buffer is large enough
IngressReadHeader ==
    /\ ~crashed /\ pc[ClientBridge] = "ReadHeader"
    /\ \/ \E k \in ReadSizes("client", HEADER_SIZE) :
            LET data == SubSeq(inbox["client"], 1, k)
                hb == data \o SubSeq(bHeader, k + 1, HEADER_SIZE)
                h == NewTDSHeader(hb)
                minBufferSize == max(ScratchSize, LengthIncludingHeader(h) + 1)
            IN  /\ ShortOK(k, HEADER_SIZE)
                /\ nShort' = IF IsShort(k, HEADER_SIZE) THEN nShort + 1 ELSE nShort
                /\ inbox' = [inbox EXCEPT !["client"] = SubSeq(@, k + 1, Len(@))]
                /\ bHeader' = hb
                /\ header' = h
                /\ bBuffer' = IF bBuffer.len < minBufferSize
                              THEN make(minBufferSize) ELSE bBuffer
                /\ packets' = IF bBuffer.len < minBufferSize
                              THEN PayloadReplaced(HeaderOverwritten(packets, hb))
                              ELSE HeaderOverwritten(packets, hb)
                /\ received' = 0
                /\ pc' = [pc EXCEPT ![ClientBridge] = "ReadPayload"]
                /\ UNCHANGED events
       \/ /\ ReadFails("client")
          /\ Throw(ClientBridge)
          /\ UNCHANGED <<inbox, nShort, bHeader, header, bBuffer, received, packets>>
    /\ UNCHANGED <<sent, peerClosed, written, closeCalls, mu, tdsMessage, tdsPacket,
                   panicking, egressVars, messages, accVars, crashed, libVars>>

\* the number of bytes the payload Read asks for
PayloadWanted(h) ==
    IF Type(h) = LargeReadType THEN ScratchSize - HEADER_SIZE ELSE PayloadSize(h)

\* lines 293-303: read the payload, if the header announces one
IngressReadPayload ==
    /\ ~crashed /\ pc[ClientBridge] = "ReadPayload"
    /\ IF Type(header) = LargeReadType \/ PayloadSize(header) > 0
       THEN \/ \E k \in ReadSizes("client", PayloadWanted(header)) :
                 /\ ShortOK(k, PayloadWanted(header))
                 /\ nShort' = IF IsShort(k, PayloadWanted(header))
                              THEN nShort + 1 ELSE nShort
                 /\ inbox' = [inbox EXCEPT !["client"] = SubSeq(@, k + 1, Len(@))]
                 /\ bBuffer' = Stored(bBuffer, SubSeq(inbox["client"], 1, k))
                 /\ packets' = PayloadOverwritten(packets,
                                    Stored(bBuffer, SubSeq(inbox["client"], 1, k)))
                 /\ received' = k
                 /\ pc' = [pc EXCEPT ![ClientBridge] = "Packet"]
                 /\ UNCHANGED events
            \/ /\ ReadFails("client")
               /\ Throw(ClientBridge)
               /\ UNCHANGED <<inbox, nShort, bBuffer, received, packets>>
       ELSE /\ pc' = [pc EXCEPT ![ClientBridge] = "Packet"]
            /\ UNCHANGED <<inbox, nShort, bBuffer, received, events, packets>>
    /\ UNCHANGED <<sent, peerClosed, written, closeCalls, mu, bHeader, header,
                   tdsMessage, tdsPacket, panicking, egressVars, messages,
                   accVars, crashed, libVars>>

\* lines 306-316: construct the packet, publish packet-received, add it to the message.
\* make() in NewTDSPacket panics on a negative payload size; the deferred call runs.
IngressPacket ==
    /\ ~crashed /\ pc[ClientBridge] = "Packet"
    /\ IF MakePanics(PayloadSize(header))
       THEN /\ panicking' = TRUE
            /\ pc' = [pc EXCEPT ![ClientBridge] = "Disconnected"]
            /\ UNCHANGED <<packets, messages, tdsPacket, tdsMessage, events>>
       ELSE LET ref == Len(packets) + 1
                pkt == NewTDSPacket(bHeader, bBuffer, PayloadSize(header))
            IN  /\ packets' = Append(packets, pkt)
                /\ tdsPacket' = ref
                /\ events' = [events EXCEPT ![ClientBridge] = Append(@, Event("packet-received", ref))]
                /\ IF tdsMessage = 0
                   THEN /\ messages' = Append(messages,
                                 CreateTDSMessageFromFirstPacket(pkt.Header, ref))
                        /\ tdsMessage' = Len(messages) + 1
                   ELSE /\ messages' = [messages EXCEPT ![tdsMessage] = AddPacket(@, ref)]
                        /\ UNCHANGED tdsMessage
                /\ pc' = [pc EXCEPT ![ClientBridge] = "Message"]
                /\ UNCHANGED panicking
    /\ UNCHANGED <<sockVars, mu, bHeader, bBuffer, header, received, egressVars, envVars,
                   accVars, crashed, libVars>>

\* the test of line 319 with the comparison inverted
EndsMessage_Inverted(h) == ~HasEndOfMessage(StatusBitMask(h))

\* line 319: (header.StatusBitMask() & END_OF_MESSAGE) == END_OF_MESSAGE
EndsMessage(h) == HasEndOfMessage(StatusBitMask(h))

\* lines 319-322 without the reset of line 321
IngressMessage_NoReset ==
    /\ ~crashed /\ pc[ClientBridge] = "Message"
    /\ IF EndsMessage(header)
       THEN events' = [events EXCEPT ![ClientBridge] =
                           Append(@, Event("message-received", tdsMessage))]
       ELSE UNCHANGED events
    /\ pc' = [pc EXCEPT ![ClientBridge] = "WriteHeader"]
    /\ UNCHANGED <<sockVars, mu, ingressVars, egressVars, heapVars, envVars, accVars,
                   crashed, libVars>>

\* lines 319-322: on END_OF_MESSAGE publish message-received and reset the message
IngressMessage ==
    /\ ~crashed /\ pc[ClientBridge] = "Message"
    /\ IF EndsMessage(header)
       THEN /\ events' = [events EXCEPT ![ClientBridge] =
                               Append(@, Event("message-received", tdsMessage))]
            /\ tdsMessage' = 0
       ELSE UNCHANGED <<events, tdsMessage>>
    /\ pc' = [pc EXCEPT ![ClientBridge] = "WriteHeader"]
    /\ UNCHANGED <<sockVars, mu, bHeader, bBuffer, header, received, tdsPacket, panicking,
                   egressVars, heapVars, envVars, accVars, crashed, libVars>>

\* a header Write after which the next header is read at once
IngressWriteHeader_ThenRead ==
    /\ ~crashed /\ pc[ClientBridge] = "WriteHeader"
    /\ IF WriteFails("sql")
       THEN Throw(ClientBridge) /\ UNCHANGED written
       ELSE /\ written' = [written EXCEPT !["sql"] = Append(@, FromSeq(bHeader))]
            /\ pc' = [pc EXCEPT ![ClientBridge] = "ReadHeader"]
            /\ UNCHANGED events
    /\ UNCHANGED <<inbox, sent, peerClosed, closeCalls, mu, ingressVars, egressVars,
                   heapVars, envVars, accVars, crashed, libVars>>

\* lines 325-329: write the header buffer upstream
IngressWriteHeader ==
    /\ ~crashed /\ pc[ClientBridge] = "WriteHeader"
    /\ IF WriteFails("sql")
       THEN Throw(ClientBridge) /\ UNCHANGED written
       ELSE /\ written' = [written EXCEPT !["sql"] = Append(@, FromSeq(bHeader))]
            /\ pc' = [pc EXCEPT ![ClientBridge] = "WritePayload"]
            /\ UNCHANGED events
    /\ UNCHANGED <<inbox, sent, peerClosed, closeCalls, mu, ingressVars, egressVars,
                   heapVars, envVars, accVars, crashed, libVars>>

\* the slice the payload Write sends
PayloadToWrite(h, buf, got) ==
    IF Type(h) = LargeReadType THEN SliceTo(buf, got) ELSE SliceTo(buf, PayloadSize(h))

\* lines 332-341: write the payload upstream, then loop
IngressWritePayload ==
    /\ ~crashed /\ pc[ClientBridge] = "WritePayload"
    /\ IF WriteFails("sql")
       THEN Throw(ClientBridge) /\ UNCHANGED written
       ELSE /\ written' = [written EXCEPT !["sql"] =
                               Append(@, PayloadToWrite(header, bBuffer, received))]
            /\ pc' = [pc EXCEPT ![ClientBridge] = "ReadHeader"]
            /\ UNCHANGED events
    /\ UNCHANGED <<inbox, sent, peerClosed, closeCalls, mu, ingressVars, egressVars,
                   heapVars, envVars, accVars, crashed, libVars>>

(***************************************************************************)
(* BridgedConnection.sqlServerToClientBridge (egress).                     *)
(***************************************************************************)
\* lines 355-359
EgressRead ==
    /\ ~crashed /\ pc[BridgeSQL] = "Read"
    /\ \/ \E k \in ReadSizes("sql", EgressBufferSize) :
            /\ inbox' = [inbox EXCEPT !["sql"] = SubSeq(@, k + 1, Len(@))]
            /\ eBuffer' = Stored(eBuffer, SubSeq(inbox["sql"], 1, k))
            /\ n' = k
            /\ pc' = [pc EXCEPT ![BridgeSQL] = "Write"]
            /\ UNCHANGED events
       \/ /\ ReadFails("sql")
          /\ Throw(BridgeSQL)
          /\ UNCHANGED <<inbox, eBuffer, n>>
    /\ UNCHANGED <<sent, peerClosed, written, closeCalls, mu, ingressVars, heapVars,
                   envVars, accVars, crashed, libVars>>

\* a write that waits until ingress has a packet in hand
EgressWrite_AfterIngress ==
    /\ ~crashed /\ pc[BridgeSQL] = "Write"
    /\ pc[ClientBridge] # "ReadHeader"
    /\ IF WriteFails("client")
       THEN Throw(BridgeSQL) /\ UNCHANGED written
       ELSE /\ written' = [written EXCEPT !["client"] = Append(@, SliceTo(eBuffer, n))]
            /\ pc' = [pc EXCEPT ![BridgeSQL] = "Read"]
            /\ UNCHANGED events
    /\ UNCHANGED <<inbox, sent, peerClosed, closeCalls, mu, ingressVars, egressVars,
                   heapVars, envVars, accVars, crashed, libVars>>

\* a write of the whole buffer in place of the n bytes read
EgressWrite_WholeBuffer ==
    /\ ~crashed /\ pc[BridgeSQL] = "Write"
    /\ IF WriteFails("client")
       THEN Throw(BridgeSQL) /\ UNCHANGED written
       ELSE /\ written' = [written EXCEPT !["client"] = Append(@, eBuffer)]
            /\ pc' = [pc EXCEPT ![BridgeSQL] = "Read"]
            /\ UNCHANGED events
    /\ UNCHANGED <<inbox, sent, peerClosed, closeCalls, mu, ingressVars, egressVars,
                   heapVars, envVars, accVars, crashed, libVars>>

\* lines 362-366
EgressWrite ==
    /\ ~crashed /\ pc[BridgeSQL] = "Write"
    /\ IF WriteFails("client")
       THEN Throw(BridgeSQL) /\ UNCHANGED written
       ELSE /\ written' = [written EXCEPT !["client"] = Append(@, SliceTo(eBuffer, n))]
            /\ pc' = [pc EXCEPT ![BridgeSQL] = "Read"]
            /\ UNCHANGED events
    /\ UNCHANGED <<inbox, sent, peerClosed, closeCalls, mu, ingressVars, egressVars,
                   heapVars, envVars, accVars, crashed, libVars>>

(***************************************************************************)
(* BridgedConnection.onConnectionDisconnected(ct), the deferred call of    *)
(* both tasks: publish, lock, close the other side's socket, unlock.       *)
(***************************************************************************)
\* the socket a direction closes when it ends
Opposite(ct) == IF ct = ClientBridge THEN "sql" ELSE "client"

\* line 387
Disconnected(ct) ==
    /\ ~crashed /\ pc[ct] = "Disconnected"
    /\ events' = [events EXCEPT ![ct] = Append(@, Event("connection-disconnected", ct))]
    /\ pc' = [pc EXCEPT ![ct] = "Lock"]
    /\ UNCHANGED <<sockVars, mu, ingressVars, egressVars, heapVars, envVars, accVars,
                   crashed, libVars>>

\* onConnectionDisconnected without bc.mu.Lock()
Lock_NoMutex(ct) ==
    /\ ~crashed /\ pc[ct] = "Lock"
    /\ mu' = ct
    /\ pc' = [pc EXCEPT ![ct] = "Close"]
    /\ UNCHANGED <<sockVars, ingressVars, egressVars, heapVars, envVars, accVars,
                   events, crashed, libVars>>

\* line 389
Lock(ct) ==
    /\ ~crashed /\ pc[ct] = "Lock"
    /\ mu = "free"
    /\ mu' = ct
    /\ pc' = [pc EXCEPT ![ct] = "Close"]
    /\ UNCHANGED <<sockVars, ingressVars, egressVars, heapVars, envVars, accVars,
                   events, crashed, libVars>>

\* lines 392-401: the sockets of the couple are never nil, so Close is always called
Close(ct) ==
    /\ ~crashed /\ pc[ct] = "Close"
    /\ closeCalls' = [closeCalls EXCEPT ![Opposite(ct)] = @ + 1]
    /\ pc' = [pc EXCEPT ![ct] = "Unlock"]
    /\ UNCHANGED <<inbox, sent, peerClosed, written, mu, ingressVars, egressVars,
                   heapVars, envVars, accVars, events, crashed, libVars>>

\* line 390 (deferred); the task has then returned, or goes on panicking
Unlock(ct) ==
    /\ ~crashed /\ pc[ct] = "Unlock"
    /\ mu' = "free"
    /\ pc' = [pc EXCEPT ![ct] = IF ct = ClientBridge /\ panicking
                                 THEN "Panicked" ELSE "Done"]
    /\ UNCHANGED <<sockVars, ingressVars, egressVars, heapVars, envVars, accVars,
                   events, crashed, libVars>>

\* a panic no deferred call recovers ends the process
PanicExit ==
    /\ ~crashed /\ pc[ClientBridge] = "Panicked"
    /\ crashed' = TRUE
    /\ UNCHANGED <<connVars, accVars, events, libVars>>

Ingress ==
    \/ IngressReadHeader
    \/ IngressReadPayload
    \/ IngressPacket
    \/ IngressMessage
    \/ IngressWriteHeader
    \/ IngressWritePayload

Egress == EgressRead \/ EgressWrite

TeardownOf(ct) == Disconnected(ct) \/ Lock(ct) \/ Close(ct) \/ Unlock(ct)

Teardown == \E ct \in ConnectionType : TeardownOf(ct)

Peers == PeerClose("client") \/ PeerClose("sql")

Next == Ingress \/ EgressRead \/ Teardown \/ PanicExit \/ Peers

Spec == Init /\ [][Next]_vars

(***************************************************************************)
(* Properties of the ingress side.                                         *)
(***************************************************************************)
Range(s) == { s[i] : i \in DOMAIN s }

\* the slices written one after the other spell a prefix of the byte sequence s
RECURSIVE ChunksArePrefix(_, _)
ChunksArePrefix(chunks, s) ==
    IF chunks = <<>>
    THEN TRUE
    ELSE LET c == Head(chunks)
         IN  /\ c.len <= Len(s)
             /\ FromSeq(SubSeq(s, 1, c.len)) = c
             /\ ChunksArePrefix(Tail(chunks), SubSeq(s, c.len + 1, Len(s)))

IngressLog == events[ClientBridge]

IsPacketEvent(e) == e.ev = "packet-received"

IsMessageEvent(e) == e.ev = "message-received"

PacketHasEOM(ref) == HasEndOfMessage(StatusBitMask(packets[ref].Header))

\* C1: at every point the bytes ingress has written to the upstream socket are a
\* prefix of the bytes the client sent, however the client socket's Reads split
\* the stream (short reads of the header or of the payload included).
C1_IngressTransparent == ChunksArePrefix(written["sql"], sent["client"])

\* C2: packet-received events are published in the order the packets were read;
\* each message-received directly follows the packet-received of the last packet
\* of its message, which has END_OF_MESSAGE; all packets of the message were
\* published before it, in the message's order, and no packet published after it
\* belongs to the message.
C2_CallbackOrder ==
    LET E == IngressLog
        P == SelectSeq(E, IsPacketEvent)
    IN  /\ \A i \in 1..Len(P) : P[i].arg = i
        /\ \A i \in 1..Len(E) :
             IsMessageEvent(E[i]) =>
               LET m == messages[E[i].arg]
               IN  /\ i > 1
                   /\ IsPacketEvent(E[i - 1])
                   /\ E[i - 1].arg = Last(m.Packets)
                   /\ PacketHasEOM(Last(m.Packets))
                   /\ \A k \in 1..(Len(m.Packets) - 1) : m.Packets[k] < m.Packets[k + 1]
                   /\ \A ref \in Range(m.Packets) :
                        \E j \in 1..(i - 1) : IsPacketEvent(E[j]) /\ E[j].arg = ref
                   /\ \A j \in (i + 1)..Len(E) :
                        IsPacketEvent(E[j]) => E[j].arg \notin Range(m.Packets)

\* a message-received has been followed by the packet-received of the next message
C2_Witness ==
    \E i, j \in 1..Len(IngressLog) :
        /\ i < j
        /\ IsMessageEvent(IngressLog[i])
        /\ IsPacketEvent(IngressLog[j])

\* the END_OF_MESSAGE packets whose iteration has passed the check of line 319
EOMProcessed ==
    { j \in 1..Len(IngressLog) :
        /\ IsPacketEvent(IngressLog[j])
        /\ PacketHasEOM(IngressLog[j].arg)
        /\ ~(j = Len(IngressLog) /\ pc[ClientBridge] = "Message") }

\* C3: the number of message-received events equals the number of END_OF_MESSAGE
\* packets ingress has processed, the events carry pairwise distinct messages, and
\* every message published contains an END_OF_MESSAGE packet.
C3_OneCompletion ==
    LET M == SelectSeq(IngressLog, IsMessageEvent)
    IN  /\ Len(M) = Cardinality(EOMProcessed)
        /\ \A i, j \in 1..Len(M) : i # j => M[i].arg # M[j].arg
        /\ \A i \in 1..Len(M) :
             \E ref \in Range(messages[M[i].arg].Packets) : PacketHasEOM(ref)

\* two messages have been completed, and a third one is cut off by the teardown
C3_Witness ==
    /\ Len(SelectSeq(IngressLog, IsMessageEvent)) = 2
    /\ pc[ClientBridge] = "Done"

\* C4: every message, in progress or published, holds only packets whose header
\* type is the type of its first packet.
C4_TypeHomogeneous ==
    \A m \in 1..Len(messages) :
        \A ref \in Range(messages[m].Packets) :
            Type(packets[ref].Header) = Type(packets[messages[m].Packets[1]].Header)

\* C5: no packet of a message other than the last has END_OF_MESSAGE; at the start
\* of an ingress iteration the message in progress is none or a non-empty list
\* whose last packet has END_OF_MESSAGE clear; every message passed to
\* message-received is complete.
C5_TerminalOnly ==
    /\ \A m \in 1..Len(messages) :
         \A k \in 1..(Len(messages[m].Packets) - 1) :
             ~PacketHasEOM(messages[m].Packets[k])
    /\ pc[ClientBridge] = "ReadHeader" =>
         \/ tdsMessage = 0
         \/ /\ messages[tdsMessage].Packets # <<>>
            /\ ~IsComplete(messages[tdsMessage], packets)
    /\ \A i \in 1..Len(IngressLog) :
         IsMessageEvent(IngressLog[i]) =>
             IsComplete(messages[IngressLog[i].arg], packets)

\* a message of two packets has been published
C5_Witness ==
    \E i \in 1..Len(IngressLog) :
        /\ IsMessageEvent(IngressLog[i])
        /\ Len(messages[IngressLog[i].arg].Packets) = 2

\* C6: no header a client sends is fatal: ingress never panics and the process
\* never dies, whatever length the header declares.
C6_MalformedNotFatal == ~panicking /\ ~crashed

(***************************************************************************)
(* Both directions relaying: the upstream server sends up to MaxUpBytes    *)
(* bytes while the client sends its packets; the client socket's Reads     *)
(* return all that is available.                                           *)
(***************************************************************************)
RelayInit ==
    /\ \E ks \in KindSeqs, m \in 0..MaxUpBytes :
         ConnInit(StreamOf(ks, 1), UpStream(m), MaxShortReads)
    /\ AccBridged
    /\ crashed = FALSE
    /\ LibIdle

RelayNext == Ingress \/ Egress \/ Teardown \/ PanicExit \/ Peers

RelaySpec == RelayInit /\ [][RelayNext]_vars

\* Both tasks are goroutines the Go scheduler runs whenever they can take a step;
\* a Read that has nothing to return is not a step.
IngressTask == Ingress \/ TeardownOf(ClientBridge) \/ PanicExit

EgressTask == Egress \/ TeardownOf(BridgeSQL)

FairRelaySpec == RelaySpec /\ WF_vars(IngressTask) /\ WF_vars(EgressTask)

(***************************************************************************)
(* Properties of the teardown.                                             *)
(***************************************************************************)
\* the direction has published a bridge-exception: a read or write failed
Thrown(ct) == \E i \in 1..Len(events[ct]) : events[ct][i].ev = "bridge-exception"

DisconnectedCount(ct) ==
    Cardinality({ i \in 1..Len(events[ct]) :
                    /\ events[ct][i].ev = "connection-disconnected"
                    /\ events[ct][i].arg = ct })

\* the bridge has closed the socket, or the process has died and holds none
SocketClosed(s) == closeCalls[s] >= 1 \/ crashed

BothTornDown ==
    /\ \A ct \in ConnectionType : DisconnectedCount(ct) = 1
    /\ \A s \in Sockets : SocketClosed(s)

\* C7: once a direction has ended on a read or write error or the end of its
\* stream, connection-disconnected is eventually published for both directions
\* and both sockets are closed.
C7_TeardownPropagates == (\E ct \in ConnectionType : Thrown(ct)) ~> BothTornDown

\* C8: Close is called at most once on each socket, the two tasks are never both
\* inside their Close call, and a task inside it holds the connection's mutex.
C8_CloseOnce ==
    /\ \A s \in Sockets : closeCalls[s] <= 1
    /\ ~(pc[ClientBridge] = "Close" /\ pc[BridgeSQL] = "Close")
    /\ \A ct \in ConnectionType : pc[ct] = "Close" => mu = ct

\* one task is inside its Close call while the other waits for the mutex
C8_Witness ==
    \E ct, other \in ConnectionType :
        /\ ct # other
        /\ pc[ct] = "Close"
        /\ pc[other] = "Lock"

\* the task of the direction has left its function, by return or by panic
Ended(ct) == pc[ct] \in {"Done", "Panicked"}

\* C9: connection-disconnected is published at most once per direction, and
\* exactly once for a direction whose task has ended.
C9_OneDisconnectPerDirection ==
    \A ct \in ConnectionType :
        /\ DisconnectedCount(ct) <= 1
        /\ Ended(ct) => DisconnectedCount(ct) = 1

\* both tasks have ended, egress on a failed write to the client
C9_Witness ==
    /\ \A ct \in ConnectionType : pc[ct] = "Done"
    /\ written["client"] # <<>>
    /\ inbox["sql"] = <<>>
    /\ sent["sql"] # <<>>
    /\ Len(written["client"]) < Len(sent["sql"])

(***************************************************************************)
(* BridgeAcceptor.  baMu is ba.mu: "free" or the call that holds it.       *)
(* Start holds it from its first line to its last and is one step; Stop    *)
(* is two steps, so that what the accept task does without the mutex while *)
(* Stop is inside its critical section is visible; isEnabled takes the     *)
(* mutex, reads ba.enabled and releases it in one step.  listeners[l] is   *)
(* the state of the l-th listener net.Listen created; the t-th accept task *)
(* is the one the t-th successful Start spawned, so listener t is the      *)
(* listener that Start created.                                            *)
(***************************************************************************)
AcceptTasks == 1..MaxStarts

\* the port is free when no listener of this process is open on it
PortFree == \A l \in 1..Len(listeners) : listeners[l] = "closed"

\* lines 108-130
Start ==
    /\ ~crashed /\ nStarts < MaxStarts
    /\ baMu = "free"
    /\ nStarts' = nStarts + 1
    /\ IF enabled
       THEN UNCHANGED <<enabled, listener, listeners, accPc>>
       ELSE IF PortFree
            THEN /\ enabled' = TRUE
                 /\ listeners' = Append(listeners, "open")
                 /\ listener' = Len(listeners) + 1
                 /\ accPc' = [accPc EXCEPT ![Len(listeners) + 1] = "Check"]
            ELSE UNCHANGED <<enabled, listener, listeners, accPc>>
    /\ UNCHANGED <<connVars, baMu, accOn, nStops, hcVars, events, crashed, libVars>>
    /\ UNCHANGED <<nAccErr, errWhile>>

\* lines 134-141: take the mutex; return at once when not enabled, else clear
\* the flag
StopLock ==
    /\ ~crashed /\ nStops < MaxStops
    /\ baMu = "free"
    /\ nStops' = nStops + 1
    /\ IF ~enabled
       THEN UNCHANGED <<enabled, baMu>>
       ELSE enabled' = FALSE /\ baMu' = "Stop"
    /\ atStop' = bridgedClient
    /\ UNCHANGED <<connVars, listener, listeners, accPc, accOn, nStarts, nClients,
                   hPc, hClosed, bridgedClient, events, crashed, libVars>>
    /\ UNCHANGED <<nAccErr, errWhile>>

\* lines 144-148: close the listener, forget it, and release the mutex (deferred)
StopClose ==
    /\ ~crashed /\ baMu = "Stop"
    /\ listener' = 0
    /\ listeners' = IF listener # 0
                    THEN [listeners EXCEPT ![listener] = "closed"]
                    ELSE listeners
    /\ baMu' = "free"
    /\ UNCHANGED <<connVars, enabled, accPc, accOn, nStarts, nStops, hcVars,
                   events, crashed, libVars>>
    /\ UNCHANGED <<nAccErr, errWhile>>

Stop == StopLock \/ StopClose

\* line 152: for ba.isEnabled()
AcceptCheck(t) ==
    /\ ~crashed /\ accPc[t] = "Check"
    /\ baMu = "free"
    /\ accPc' = [accPc EXCEPT ![t] = IF enabled THEN "Accept" ELSE "Exited"]
    /\ UNCHANGED <<connVars, enabled, listener, listeners, baMu, accOn, nStarts,
                   nStops, hcVars, events, crashed, libVars>>
    /\ UNCHANGED <<nAccErr, errWhile>>

\* line 154, the call: ba.listener is read without the mutex; calling Accept on
\* a nil listener panics, and nothing recovers it
AcceptCall(t) ==
    /\ ~crashed /\ accPc[t] = "Accept"
    /\ IF listener = 0
       THEN crashed' = TRUE /\ UNCHANGED <<accPc, accOn>>
       ELSE /\ accOn' = [accOn EXCEPT ![t] = listener]
            /\ accPc' = [accPc EXCEPT ![t] = "InAccept"]
            /\ UNCHANGED crashed
    /\ UNCHANGED <<connVars, enabled, listener, listeners, baMu, nStarts, nStops,
                   hcVars, events, libVars>>
    /\ UNCHANGED <<nAccErr, errWhile>>

\* line 154, the return with a client connection, and line 163: the handler of
\* the c-th accepted client is spawned
AcceptClient(t) ==
    /\ ~crashed /\ accPc[t] = "InAccept"
    /\ listeners[accOn[t]] = "open"
    /\ nClients < MaxClients
    /\ nClients' = nClients + 1
    /\ hPc' = [hPc EXCEPT ![nClients + 1] = "Spawned"]
    /\ accPc' = [accPc EXCEPT ![t] = "Check"]
    /\ UNCHANGED <<connVars, enabled, listener, listeners, baMu, accOn, nStarts,
                   nStops, hClosed, bridgedClient, atStop, events, crashed, libVars>>
    /\ UNCHANGED <<nAccErr, errWhile>>

\* line 154, the return with an error: the listener was closed
AcceptFail(t) ==
    /\ ~crashed /\ accPc[t] = "InAccept"
    /\ listeners[accOn[t]] = "closed"
    /\ accPc' = [accPc EXCEPT ![t] = "Error"]
    /\ UNCHANGED <<connVars, enabled, listener, listeners, baMu, accOn, nStarts,
                   nStops, hcVars, events, crashed, libVars>>
    /\ errWhile' = [errWhile EXCEPT ![t] = IF enabled THEN "enabled" ELSE "disabled"]
    /\ UNCHANGED nAccErr

\* line 154, the return with an error on the open listener (a connection
\* aborted before it was accepted, no descriptor left)
AcceptTransient(t) ==
    /\ ~crashed /\ accPc[t] = "InAccept"
    /\ listeners[accOn[t]] = "open"
    /\ nAccErr < MaxAcceptErrors
    /\ nAccErr' = nAccErr + 1
    /\ errWhile' = [errWhile EXCEPT ![t] = IF enabled THEN "enabled" ELSE "disabled"]
    /\ accPc' = [accPc EXCEPT ![t] = "Error"]
    /\ UNCHANGED <<connVars, enabled, listener, listeners, baMu, accOn, nStarts,
                   nStops, hcVars, events, crashed, libVars>>

\* lines 156-159: report the error if the acceptor is enabled, then continue
AcceptError(t) ==
    /\ ~crashed /\ accPc[t] = "Error"
    /\ baMu = "free"
    /\ events' = IF enabled
                 THEN [events EXCEPT !["Acceptor"] =
                           Append(@, Event("listening-thread-exception", listener))]
                 ELSE events
    /\ accPc' = [accPc EXCEPT ![t] = "Check"]
    /\ UNCHANGED <<connVars, enabled, listener, listeners, baMu, accOn, nStarts,
                   nStops, hcVars, crashed, libVars>>
    /\ UNCHANGED <<nAccErr, errWhile>>

\* the steps of an accept task that wait for nothing outside the process
AcceptStep(t) ==
    \/ AcceptCheck(t)
    \/ AcceptCall(t)
    \/ AcceptFail(t)
    \/ AcceptError(t)

acceptLoop(t) == AcceptStep(t) \/ AcceptClient(t)

(***************************************************************************)
(* BridgeAcceptor.handleNewConnection, one task per accepted client.  The  *)
(* model holds the state of one bridged connection, so the upstream server *)
(* takes the dial of one client (bridgedClient) and refuses any dial while *)
(* that connection exists; it may refuse every dial.                       *)
(***************************************************************************)
Clients == 1..MaxClients

\* line 170: ba.onConnectionAccepted(clientConn)
HandleAccepted(c) ==
    /\ ~crashed /\ hPc[c] = "Spawned"
    /\ events' = [events EXCEPT !["Acceptor"] =
                      Append(@, Event("connection-accepted", c))]
    /\ hPc' = [hPc EXCEPT ![c] = "Dial"]
    /\ UNCHANGED <<connVars, enabled, listener, listeners, baMu, accPc, accOn,
                   nStarts, nStops, nClients, hClosed, bridgedClient, atStop, crashed, libVars>>
    /\ UNCHANGED <<nAccErr, errWhile>>

\* a handler that leaves the client socket open when the dial fails
DialFail_NoClose(c) ==
    /\ ~crashed /\ hPc[c] = "Dial"
    /\ hPc' = [hPc EXCEPT ![c] = "Dropped"]
    /\ UNCHANGED <<connVars, enabled, listener, listeners, baMu, accPc, accOn,
                   nStarts, nStops, nClients, hClosed, bridgedClient, atStop, events,
                   crashed, libVars>>
    /\ UNCHANGED <<nAccErr, errWhile>>

\* lines 173-178: net.Dial fails; close the client socket and return
DialFail(c) ==
    /\ ~crashed /\ hPc[c] = "Dial"
    /\ hClosed' = [hClosed EXCEPT ![c] = @ + 1]
    /\ hPc' = [hPc EXCEPT ![c] = "Dropped"]
    /\ UNCHANGED <<connVars, enabled, listener, listeners, baMu, accPc, accOn,
                   nStarts, nStops, nClients, bridgedClient, atStop, events, crashed, libVars>>
    /\ UNCHANGED <<nAccErr, errWhile>>

\* lines 173 and 181-190: net.Dial succeeds; NewBridgedConnection and
\* BridgedConnection.Start, which spawns the two forwarding tasks
DialOK(c) ==
    /\ ~crashed /\ hPc[c] = "Dial"
    /\ bridgedClient = 0
    /\ bridgedClient' = c
    /\ hPc' = [hPc EXCEPT ![c] = "Bridged"]
    /\ pc' = [ct \in ConnectionType |->
                  IF ct = ClientBridge THEN "ReadHeader" ELSE "Read"]
    /\ UNCHANGED <<sockVars, mu, ingressVars, egressVars, heapVars, envVars,
                   enabled, listener, listeners, baMu, accPc, accOn, nStarts,
                   nStops, nClients, hClosed, atStop, events, crashed, libVars>>
    /\ UNCHANGED <<nAccErr, errWhile>>

handleNewConnection(c) == HandleAccepted(c) \/ DialFail(c) \/ DialOK(c)

\* the acceptor with the handlers of the clients it accepts; the forwarding
\* tasks of a bridged connection do not run here
AcceptorInit ==
    /\ NewBridgedConnection(<<>>, <<>>, MaxShortReads)
    /\ pc = [ct \in ConnectionType |-> "NotStarted"]
    /\ AccInit
    /\ nAccErr = 0
    /\ events = [t \in Tasks |-> <<>>]
    /\ crashed = FALSE
    /\ LibIdle

AcceptorSteps ==
    \/ Start
    \/ Stop
    \/ \E t \in AcceptTasks : acceptLoop(t)
    \/ \E c \in Clients : handleNewConnection(c)

AcceptorNext == AcceptorSteps \/ \E t \in AcceptTasks : AcceptTransient(t)

AcceptorSpec == AcceptorInit /\ [][AcceptorNext]_vars

\* the accept tasks run, and a Stop that has taken the mutex goes on
FairAcceptorSpec ==
    /\ AcceptorSpec
    /\ \A t \in AcceptTasks : WF_vars(AcceptStep(t))
    /\ WF_vars(StopClose)

\* C10: an accept task only ever waits in Accept on the listener that its own
\* Start created: after Start, Stop, Start the task of the first Start never calls
\* Accept on the second listener, so at most one task accepts for the acceptor.
C10_OneAcceptTask ==
    /\ \A t \in AcceptTasks : accPc[t] = "InAccept" => accOn[t] = t
    /\ Cardinality({ t \in AcceptTasks :
                       accPc[t] = "InAccept" /\ listeners[accOn[t]] = "open" }) <= 1

\* every accept task a Start spawned has left its loop
AllExited == \A t \in AcceptTasks : accPc[t] \in {"none", "Exited"}

\* Stop has run to its end and the acceptor is Stopped
Stopped == nStops > 0 /\ ~enabled /\ baMu = "free"

\* C11: once Stop has run on the acceptor, then unless a later Start makes it
\* Running again every accept task eventually leaves its loop by the enabled
\* check, wherever in the loop Stop found it.
C11_StopEndsAcceptLoop == Stopped ~> (enabled \/ AllExited)

\* C12: the accept task reads the listener reference only while no other call
\* is inside the critical section of the acceptor mutex, that is, never while
\* Start or Stop is changing the acceptor's fields.
C12_MutexSerialized ==
    [][(\E t \in AcceptTasks : AcceptCall(t)) => baMu = "free"]_vars

(***************************************************************************)
(* The acceptor together with the connection it bridges: the connection of *)
(* the client whose dial the upstream server takes runs its two forwarding *)
(* tasks while the acceptor goes on accepting, is stopped and restarted.   *)
(* The client sends well-formed packets and reads return what is there.    *)
(***************************************************************************)
BridgeInit ==
    /\ \E ks \in BridgeStreams, m \in 0..MaxUpBytes :
         NewBridgedConnection(StreamOf(ks, 1), UpStream(m), MaxShortReads)
    /\ pc = [ct \in ConnectionType |-> "NotStarted"]
    /\ AccInit
    /\ nAccErr = 0
    /\ events = [t \in Tasks |-> <<>>]
    /\ crashed = FALSE
    /\ LibIdle

\* the client's packets are well-formed, so no step of ingress panics; Accept
\* fails on a closed listener only
BridgeNext == AcceptorSteps \/ Ingress \/ Egress \/ Teardown \/ Peers

BridgeSpec == BridgeInit /\ [][BridgeNext]_vars

\* the connection-accepted events published for client c
AcceptedCount(c) ==
    Cardinality({ i \in 1..Len(events["Acceptor"]) :
                    /\ events["Acceptor"][i].ev = "connection-accepted"
                    /\ events["Acceptor"][i].arg = c })

\* C13: connection-accepted is published once for an accepted client, before
\* its dial; a client whose dial failed has its socket closed once and is not
\* bridged; and while no client is bridged no forwarding task exists and no
\* bridge-exception, packet, message or disconnected event has been published.
C13_DialFailure ==
    /\ \A c \in Clients :
         /\ AcceptedCount(c) = IF hPc[c] \in {"Dial", "Bridged", "Dropped"} THEN 1 ELSE 0
         /\ hPc[c] = "Dropped" => hClosed[c] = 1 /\ bridgedClient # c
         /\ hPc[c] # "Dropped" => hClosed[c] = 0
    /\ bridgedClient = 0 =>
         /\ \A ct \in ConnectionType : pc[ct] = "NotStarted" /\ events[ct] = <<>>
         /\ packets = <<>> /\ messages = <<>>
         /\ \A s \in Sockets : written[s] = <<>> /\ closeCalls[s] = 0

\* a client was accepted and announced, its dial failed, and its bytes wait unread
C13_Witness ==
    /\ \E c \in Clients : hPc[c] = "Dropped" /\ hClosed[c] = 1
    /\ bridgedClient = 0
    /\ inbox["client"] # <<>>
    /\ events["Acceptor"] # <<>>

(***************************************************************************)
(* Properties of the egress side.                                          *)
(***************************************************************************)
\* the bytes egress has read from the upstream socket
UpstreamRead == SubSeq(sent["sql"], 1, Len(sent["sql"]) - Len(inbox["sql"]))

RECURSIVE TotalLen(_)
TotalLen(chunks) ==
    IF chunks = <<>> THEN 0 ELSE Head(chunks).len + TotalLen(Tail(chunks))

\* C14: at every point the bytes egress has written to the client socket are a
\* prefix of the bytes it has read from the upstream socket, however the reads
\* split the stream, and a chunk is written in full before the next read: at
\* the read everything read was written, at the write only the n bytes of the
\* last read are missing.
C14_EgressTransparent ==
    /\ ChunksArePrefix(written["client"], UpstreamRead)
    /\ pc[BridgeSQL] = "Read" => TotalLen(written["client"]) = Len(UpstreamRead)
    /\ pc[BridgeSQL] = "Write" => TotalLen(written["client"]) + n = Len(UpstreamRead)

\* the upstream bytes came in two reads and both chunks are at the client
C14_Witness ==
    /\ Len(written["client"]) >= 2
    /\ inbox["sql"] = <<>>
    /\ pc[BridgeSQL] = "Read"

(***************************************************************************)
(* Progress of the two directions.                                         *)
(***************************************************************************)
\* no peer has closed, no socket was closed by the bridge, both tasks are in
\* their loops and the process is alive
Healthy ==
    /\ ~crashed /\ ~panicking
    /\ \A s \in Sockets : ~peerClosed[s] /\ closeCalls[s] = 0
    /\ pc[ClientBridge] \in {"ReadHeader", "ReadPayload", "Packet", "Message",
                             "WriteHeader", "WritePayload"}
    /\ pc[BridgeSQL] \in {"Read", "Write"}

\* ingress is blocked in the read of a header: the client sends nothing
IngressBlocked == pc[ClientBridge] = "ReadHeader" /\ inbox["client"] = <<>>

\* egress is blocked in its read: the upstream server sends nothing
EgressBlocked == pc[BridgeSQL] = "Read" /\ inbox["sql"] = <<>>

\* C15: on a healthy connection, with both tasks scheduled fairly, the bytes
\* that have arrived from upstream while ingress is blocked in a read all reach
\* the client, and the packets that have arrived from the client while egress
\* is blocked in a read all reach upstream, unless the connection stops being
\* healthy first.
C15_IndependentProgress ==
    /\ (Healthy /\ IngressBlocked /\ inbox["sql"] # <<>>)
         ~> (~Healthy \/ TotalLen(written["client"]) = Len(sent["sql"]))
    /\ (Healthy /\ EgressBlocked /\ inbox["client"] # <<>>)
         ~> (~Healthy \/ TotalLen(written["sql"]) = Len(sent["client"]))

\* both directions have forwarded everything while the connection stayed healthy
C15_Witness ==
    /\ Healthy /\ IngressBlocked /\ EgressBlocked
    /\ sent["sql"] # <<>> /\ TotalLen(written["client"]) = Len(sent["sql"])
    /\ sent["client"] # <<>> /\ TotalLen(written["sql"]) = Len(sent["client"])

\* C16: a Stop call changes nothing of a bridged connection (sockets, tasks,
\* message in progress, published events), and a connection that was bridged
\* goes on after a Stop until one of its own sockets fails: the process that
\* carries it is never brought down by the acceptor being stopped.
C16_StopLeavesConnections ==
    /\ [][Stop => UNCHANGED <<connVars, nClients, hPc, hClosed, bridgedClient,
                              events, crashed, libVars>>]_vars
    /\ [](atStop # 0 => ~crashed)

(***************************************************************************)
(* The message API called from outside a connection (message.go): a caller *)
(* splits a payload into chunks, builds one packet per chunk, classifies   *)
(* on the first and appends the rest, and calls AssemblePayload and        *)
(* GetBatchText on the message at any point.                               *)
(***************************************************************************)
\* the bytes of a slice, one by one
ToSeq(b) == [i \in 1..b.len |-> ByteAt(b, i)]

\* copy(dst[pos:], src): as many bytes of src as fit behind position pos
copy(dst, pos, src) ==
    LET k == Min(src.len, dst.len - pos)
    IN  FromSeq([i \in 1..dst.len |->
                    IF i > pos /\ i <= pos + k THEN ByteAt(src, i - pos)
                                                ELSE ByteAt(dst, i)])

\* lines 58-61: the sum of the payload lengths
RECURSIVE TotalSize(_, _)
TotalSize(refs, heap) ==
    IF refs = <<>> THEN 0 ELSE heap[Head(refs)].Payload.len + TotalSize(Tail(refs), heap)

\* a loop that copies every payload to the start of the result
RECURSIVE CopyPackets_NoAdvance(_, _, _, _)
CopyPackets_NoAdvance(refs, heap, payload, currentPosition) ==
    IF refs = <<>>
    THEN payload
    ELSE CopyPackets_NoAdvance(Tail(refs), heap,
                               copy(payload, currentPosition, heap[Head(refs)].Payload),
                               currentPosition)

\* lines 66-69: copy each payload behind the previous one
RECURSIVE CopyPackets(_, _, _, _)
CopyPackets(refs, heap, payload, currentPosition) ==
    IF refs = <<>>
    THEN payload
    ELSE CopyPackets(Tail(refs), heap,
                     copy(payload, currentPosition, heap[Head(refs)].Payload),
                     currentPosition + heap[Head(refs)].Payload.len)

\* AssemblePayload with the loop that does not advance
AssemblePayload_NoAdvance(m, heap) ==
    CopyPackets_NoAdvance(m.Packets, heap, make(TotalSize(m.Packets, heap)), 0)

\* BaseTDSMessage.AssemblePayload, given the heap of packets
AssemblePayload(m, heap) ==
    CopyPackets(m.Packets, heap, make(TotalSize(m.Packets, heap)), 0)

\* AllHeader.Length: the little-endian uint32 of the first four bytes, kept as
\* its two 16-bit halves, and 0 for a payload of fewer than four bytes
Length(payload) ==
    IF payload.len >= 4
    THEN [hi |-> (ByteAt(payload, 4) * 256) + ByteAt(payload, 3),
          lo |-> (ByteAt(payload, 2) * 256) + ByteAt(payload, 1)]
    ELSE [hi |-> 0, lo |-> 0]

\* int(u) for a uint32 u: the value itself where int has 64 bits, the value
\* modulo 2^32 taken as signed where int has 32 bits.  Values from 2^31 on,
\* which the 64-bit int holds, stand as 2^31 - 1: they exceed every length here.
int(u, bits) ==
    IF u.hi < 32768
    THEN (u.hi * 65536) + u.lo
    ELSE IF bits = 32 THEN ((u.hi - 65536) * 65536) + u.lo ELSE 2147483647

\* the 16-bit code units of lines 149-152: len/2 units, low byte first
Units(bytes) == [i \in 1..(Len(bytes) \div 2) |-> bytes[(2 * i) - 1] + (bytes[2 * i] * 256)]

\* unicode/utf16.Decode: a surrogate pair is one code point, a lone surrogate
\* is U+FFFD
RECURSIVE Decode(_)
Decode(u) ==
    IF u = <<>>
    THEN <<>>
    ELSE LET r == Head(u)
         IN  IF r < 55296 \/ r >= 57344
             THEN <<r>> \o Decode(Tail(u))
             ELSE IF /\ r < 56320 /\ Len(u) >= 2
                     /\ u[2] >= 56320 /\ u[2] < 57344
                  THEN <<((r - 55296) * 1024) + (u[2] - 56320) + 65536>>
                       \o Decode(Tail(Tail(u)))
                  ELSE <<65533>> \o Decode(Tail(u))

\* string(runes): the UTF-8 bytes of each code point
EncodeRune(r) ==
    IF r < 128 THEN <<r>>
    ELSE IF r < 2048 THEN <<192 + (r \div 64), 128 + (r % 64)>>
    ELSE IF r < 65536
         THEN <<224 + (r \div 4096), 128 + ((r \div 64) % 64), 128 + (r % 64)>>
         ELSE <<240 + (r \div 262144), 128 + ((r \div 4096) % 64),
                128 + ((r \div 64) % 64), 128 + (r % 64)>>

RECURSIVE String(_)
String(runes) ==
    IF runes = <<>> THEN <<>> ELSE EncodeRune(Head(runes)) \o String(Tail(runes))

\* SQLBatchMessage.GetBatchText on a build whose int has the given width: the
\* string, or the panic of a slice expression with a negative bound
GetBatchText(m, heap, bits) ==
    LET payload == AssemblePayload(m, heap)
        headerLength == int(Length(payload), bits)
    IN  IF payload.len > headerLength
        THEN IF headerLength < 0
             THEN [panics |-> TRUE, text |-> <<>>]
             ELSE [panics |-> FALSE,
                   text |-> String(Decode(Units(
                                SubSeq(ToSeq(payload), headerLength + 1, payload.len))))]
        ELSE [panics |-> FALSE, text |-> <<>>]

\* the byte values of a payload: zero, a small ALL_HEADERS length, and a byte
\* that is the high half of a surrogate code unit and of a length beyond 2^31
PayloadBytes == {0, 4, 216}

Payloads == UNION { [1..k -> PayloadBytes] : k \in 0..MaxPayloadLen }

RECURSIVE Sum(_)
Sum(s) == IF s = <<>> THEN 0 ELSE Head(s) + Sum(Tail(s))

\* the ways to split k bytes into at most MaxChunks chunks, empty ones included
ChunkSizesOf(k) ==
    { cs \in UNION { [1..c -> 0..k] : c \in 1..MaxChunks } : Sum(cs) = k }

\* the header of the j-th packet of the split: END_OF_MESSAGE on the last only
ChunkHeader(j) ==
    <<SQLBatch, IF j = Len(chunkSizes) THEN END_OF_MESSAGE ELSE 0,
      (chunkSizes[j] + HEADER_SIZE) \div 256, (chunkSizes[j] + HEADER_SIZE) % 256,
      0, 0, j, 0>>

\* the bytes of the first j chunks
Fed(j) == SubSeq(payloadIn, 1, Sum(SubSeq(chunkSizes, 1, j)))

\* NewTDSPacket on the next chunk, then CreateTDSMessageFromFirstPacket for the
\* first packet and AddPacket for the others
LibAddPacket ==
    /\ fed < Len(chunkSizes)
    /\ LET j     == fed + 1
           chunk == SubSeq(payloadIn, Len(Fed(fed)) + 1, Len(Fed(j)))
           ref   == Len(packets) + 1
       IN  /\ packets' = Append(packets,
                                NewTDSPacket(ChunkHeader(j), FromSeq(chunk), chunkSizes[j]))
           /\ IF libMsg = 0
              THEN /\ messages' = Append(messages,
                          CreateTDSMessageFromFirstPacket(NewTDSHeader(ChunkHeader(j)), ref))
                   /\ libMsg' = Len(messages) + 1
              ELSE /\ messages' = [messages EXCEPT ![libMsg] = AddPacket(@, ref)]
                   /\ UNCHANGED libMsg
           /\ fed' = j
    /\ assembled' = <<>>
    /\ batchText' = <<>>
    /\ UNCHANGED <<sockVars, pc, mu, ingressVars, egressVars, envVars, accVars,
                   events, crashed, payloadIn, chunkSizes, intBits>>

\* payload := m.AssemblePayload()
LibAssemblePayload ==
    /\ libMsg # 0
    /\ assembled' = <<AssemblePayload(messages[libMsg], packets)>>
    /\ UNCHANGED <<connVars, accVars, events, crashed, payloadIn, chunkSizes, fed,
                   libMsg, batchText, intBits>>

\* text := m.GetBatchText()
LibGetBatchText ==
    /\ libMsg # 0
    /\ messages[libMsg].kind = "SQLBatchMessage"
    /\ batchText' = <<GetBatchText(messages[libMsg], packets, intBits)>>
    /\ UNCHANGED <<connVars, accVars, events, crashed, payloadIn, chunkSizes, fed,
                   libMsg, assembled, intBits>>

\* no connection and no acceptor activity; a payload, a split of it, and a build
MessageInit ==
    /\ NewBridgedConnection(<<>>, <<>>, MaxShortReads)
    /\ pc = [ct \in ConnectionType |-> "NotStarted"]
    /\ AccInit
    /\ nAccErr = 0
    /\ events = [t \in Tasks |-> <<>>]
    /\ crashed = FALSE
    /\ payloadIn \in Payloads
    /\ chunkSizes \in ChunkSizesOf(Len(payloadIn))
    /\ fed = 0
    /\ libMsg = 0
    /\ assembled = <<>>
    /\ batchText = <<>>
    /\ intBits \in {32, 64}

MessageNext == LibAddPacket \/ LibAssemblePayload \/ LibGetBatchText

MessageSpec == MessageInit /\ [][MessageNext]_vars

\* C17: AssemblePayload on a message built from the chunks of a payload, in
\* order, returns the bytes of the chunks appended so far, which is the payload
\* itself once all chunks are appended, for every split (empty chunks
\* included); and the call leaves the message and its packets as they were.
C17_AssembleRoundTrip ==
    /\ [](assembled # <<>> => assembled[1] = FromSeq(Fed(fed)))
    /\ [][LibAssemblePayload => UNCHANGED <<packets, messages>>]_vars

\* a payload of several bytes, split with an empty chunk, assembled whole
C17_Witness ==
    /\ assembled # <<>>
    /\ fed = Len(chunkSizes) /\ fed >= 2
    /\ \E j \in 1..fed : chunkSizes[j] = 0
    /\ Len(payloadIn) >= 2
    /\ assembled[1] = FromSeq(payloadIn)

\* the text the batch of payload bytes p carries: nothing when p is no longer
\* than its ALL_HEADERS length, read as an unsigned 32-bit value (any value with
\* a non-zero high half exceeds every length here), else the decoding of the
\* bytes behind the ALL_HEADERS
BatchTextOf(p) ==
    LET u == Length(FromSeq(p))
    IN  IF u.hi > 0 \/ Len(p) <= u.lo
        THEN <<>>
        ELSE String(Decode(Units(SubSeq(p, u.lo + 1, Len(p)))))

\* C18: GetBatchText never fails and returns the empty string when the payload
\* is no longer than its ALL_HEADERS length, and otherwise the decoding of the
\* bytes from that offset to the end as little-endian 16-bit code units, for
\* every payload (shorter than 4 bytes, odd number of text bytes included).
C18_BatchTextBoundary ==
    batchText # <<>> =>
        /\ ~batchText[1].panics
        /\ batchText[1].text = BatchTextOf(Fed(fed))

(***************************************************************************)
(* Properties of the packets and of the order of the ingress steps.        *)
(***************************************************************************)
\* C19: every packet ingress has constructed (each is published, and stored in
\* a message) has a payload of exactly the length its own header declares
\* minus the 8 header bytes, header-only packets included.
C19_PacketLength ==
    \A i \in 1..Len(packets) :
        packets[i].Payload.len = LengthIncludingHeader(packets[i].Header) - HEADER_SIZE

\* a header-only packet was published and forwarded without error, next to a
\* packet that carries payload
C19_Witness ==
    /\ \E i \in 1..Len(packets) :
         /\ LengthIncludingHeader(packets[i].Header) = HEADER_SIZE
         /\ packets[i].Payload.len = 0
         /\ \E j \in 1..Len(events[ClientBridge]) :
              /\ events[ClientBridge][j].ev = "packet-received"
              /\ events[ClientBridge][j].arg = i
    /\ \E i \in 1..Len(packets) : packets[i].Payload.len > 0
    /\ pc[ClientBridge] = "ReadHeader"
    /\ ~panicking /\ ~crashed
    /\ \A j \in 1..Len(events[ClientBridge]) : events[ClientBridge][j].ev # "bridge-exception"

\* the packets ingress has published, and the Writes it has made upstream (two
\* per packet: the header, then the payload, which may be empty)
PacketsPublished == Len(SelectSeq(IngressLog, IsPacketEvent))

UpstreamWrites == Len(written["sql"])

TeardownPositions == {"Disconnected", "Lock", "Close", "Unlock", "Done", "Panicked"}

\* C21: a direction that has left its loop has published exactly one
\* bridge-exception, tagged with itself; its connection-disconnected comes
\* right after that bridge-exception, and the opposite socket is closed only
\* after the connection-disconnected; after its bridge-exception the direction
\* publishes no packet-received and no message-received and is at no read or
\* write any more.
C21_TeardownOrder ==
    \A ct \in ConnectionType :
        LET E == events[ct]
            X == { i \in 1..Len(E) : E[i].ev = "bridge-exception" }
        IN  /\ Cardinality(X) <= 1
            /\ \A i \in X : E[i].arg = ct
            /\ pc[ct] \in TeardownPositions => Cardinality(X) = 1
            /\ X # {} => pc[ct] \in TeardownPositions
            /\ \A i \in X : \A j \in (i + 1)..Len(E) :
                   E[j].ev = "connection-disconnected"
            /\ \A j \in 1..Len(E) :
                   E[j].ev = "connection-disconnected" => (j - 1) \in X
            /\ closeCalls[Opposite(ct)] > 0 => DisconnectedCount(ct) = 1

\* the listening-thread-exception events published so far
ListeningErrors ==
    Cardinality({ i \in 1..Len(events["Acceptor"]) :
                    events["Acceptor"][i].ev = "listening-thread-exception" })

\* C22: listening errors do not stop the acceptor.  When Accept fails while
\* the acceptor is enabled (and Stop has not run before the failure is
\* handled), exactly one listening-thread-exception is published for that
\* failure, the accept task goes back to the head of its loop and the acceptor
\* stays enabled; an accept task exits only when the acceptor is not enabled;
\* when Accept fails while the acceptor is not enabled, no
\* listening-thread-exception is published; nothing but the handling of a
\* failed Accept publishes one.
C22_ListeningErrors ==
    [][ /\ \A t \in AcceptTasks :
             /\ (accPc[t] = "Error" /\ accPc'[t] # "Error" /\ ~crashed') =>
                   /\ (errWhile[t] = "enabled" /\ enabled) =>
                         /\ ListeningErrors' = ListeningErrors + 1
                         /\ accPc'[t] = "Check"
                         /\ enabled'
                   /\ errWhile[t] = "disabled" =>
                         ListeningErrors' = ListeningErrors
             /\ (accPc[t] # "Exited" /\ accPc'[t] = "Exited") => ~enabled
        /\ ListeningErrors' # ListeningErrors =>
             \E t \in AcceptTasks : accPc[t] = "Error" /\ accPc'[t] = "Check"
      ]_vars

(***************************************************************************)
(* Ingress with a packet as long as the scratch buffer: reading its header *)
(* makes ingress replace the buffer by a larger one.  Reads return what is *)
(* there.                                                                  *)
(***************************************************************************)
SnapshotKinds ==
    { <<SQLBatch, 0, 10>>,
      <<SQLBatch, END_OF_MESSAGE, ScratchSize>>,
      <<SQLBatch, END_OF_MESSAGE, 4>> }

SnapshotSeqs == UNION { [1..m -> SnapshotKinds] : m \in 0..MaxPackets }

SnapshotInit ==
    /\ \E ks \in SnapshotSeqs : ConnInit(StreamOf(ks, 1), <<>>, MaxShortReads)
    /\ AccBridged
    /\ crashed = FALSE
    /\ LibIdle

SnapshotSpec == SnapshotInit /\ [][Next]_vars

\* C23: packets are snapshots of the reused buffers.  No step changes the
\* header bytes or the payload bytes of a packet that exists, neither a read
\* into ingress's header buffer or scratch buffer nor the replacement of the
\* scratch buffer by a larger one, whether the packet is held in the message
\* in progress or was handed to an observer.
C23_Snapshots ==
    [][\A i \in 1..Len(packets) :
          /\ Len(packets') >= Len(packets)
          /\ packets'[i].Header = packets[i].Header
          /\ packets'[i].Payload = packets[i].Payload]_vars

\* the first packet was handed to packet-received and is held in the message in
\* progress; since then ingress has read the second header into the header
\* buffer, replaced the scratch buffer by a larger one and read the second
\* payload into it, and both buffers now differ from the first packet
C23_Witness ==
    /\ Len(packets) = 1
    /\ pc[ClientBridge] = "Packet"
    /\ PacketsPublished = 1
    /\ tdsMessage # 0 /\ messages[tdsMessage].Packets = <<1>>
    /\ bBuffer.len > ScratchSize
    /\ NewTDSHeader(bHeader) # packets[1].Header
    /\ SliceTo(bBuffer, packets[1].Payload.len) # packets[1].Payload
    /\ packets[1].Payload = FromSeq(SubSeq(sent["client"], HEADER_SIZE + 1, HEADER_SIZE + 2))

\* C24: the observed packet equals the forwarded packet.  In every ingress
\* iteration that has written its payload upstream, the type-23 large-read
\* iterations included, the payload of the packet handed to packet-received
\* and stored in the message has the same length and the same bytes as the
\* payload written to the upstream socket in that iteration.
C24_ObservedIsForwarded ==
    \A k \in 1..Len(packets) :
        UpstreamWrites >= 2 * k =>
            /\ written["sql"][2 * k].len = packets[k].Payload.len
            /\ written["sql"][2 * k] = packets[k].Payload

====
